---- MODULE Spec2Model ----
(***************************************************************************)
(* A model of lib/cslFetcher.js of citeproc-node: the style registry built *)
(* by cslFetcher.init, the identifier normalizer processStyleIdentifier,   *)
(* the parent link extractor readDependent, and the two asynchronous       *)
(* pipeline steps resolveStyle and fetchStyle with their fs.readFile       *)
(* continuations.                                                          *)
(*                                                                         *)
(* JavaScript strings are sequences of one-character strings, so that      *)
(* url.parse, substr and slice are computed and not assumed.  Fixed        *)
(* messages are one-element sequences holding the whole message.           *)
(***************************************************************************)
EXTENDS Integers, Sequences, FiniteSets, TLC

VARIABLES
    initialized,              \* cslFetcher.init has returned
    dirIndependent,           \* storage: file names in cslPath
    dirDependent,             \* storage: file names in cslPath + '/dependent'
    dependentFiles,           \* storage: parsed content of each dependent .csl file, by short name
    cslShortNames,            \* own keys of cslFetcher.cslShortNames (every value is true)
    cslDependentShortNames,   \* cslFetcher.cslDependentShortNames: short name -> true | string
    zcreq,                    \* the request object of each pipeline slot
    pc,                       \* where each slot's pipeline stands
    shortNameOf,              \* the closure variable shortName of the slot's resolveStyle call
    callbacks,                \* times the slot's current step has called its callback
    cbValue,                  \* the value the slot's last callback was called with
    reads,                    \* fs.readFile calls started by the slot's current step
    resolvedOk,               \* short names a resolve step has resolved as dependent, with success
    writes                    \* per short name, the values assigned to its dependent entry, in order

vars == <<initialized, dirIndependent, dirDependent, dependentFiles, cslShortNames,
          cslDependentShortNames, zcreq, pc, shortNameOf, callbacks, cbValue, reads,
          resolvedOk, writes>>

-----------------------------------------------------------------------------
(* Bounds of the model. *)

\* Number of pipeline slots: the requests of one behaviour, in flight one after
\* another or at the same time.
NumSlots == 2

Slots == 1..NumSlots

-----------------------------------------------------------------------------
(* Strings. *)

a == <<"a">>
b == <<"b">>

DotCsl == <<".", "c", "s", "l">>
DotXml == <<".", "x", "m", "l">>
Scheme == <<"h", "t", "t", "p", ":", "/", "/">>
ZoteroHost == <<"w", "w", "w", ".", "z", "o", "t", "e", "r", "o", ".", "o", "r", "g">>
OtherHost == <<"x", ".", "o", "r", "g">>
StylesPath == <<"/", "s", "t", "y", "l", "e", "s", "/">>

\* 'http://www.zotero.org/styles/' (line 115)
ZoteroStylesUrl == Scheme \o ZoteroHost \o StylesPath

\* JavaScript undefined / null where a string is expected.
Undefined == <<"undefined">>

\* Length of "/styles/" as written in substr(0, 8) and substr(8).
PrefixLen == 8

\* Length of ".csl" as written in substr(-4) and slice(0, -4).
SuffixLen == 4

Min(x, y) == IF x < y THEN x ELSE y
Max(x, y) == IF x > y THEN x ELSE y

\* String.prototype.substr(start, length) for start >= 0.
Substr(s, start, length) == SubSeq(s, start + 1, Min(Len(s), start + length))

\* String.prototype.substr(start) for start >= 0.
SubstrFrom(s, start) == SubSeq(s, start + 1, Len(s))

\* String.prototype.substr(-n): the last n characters (the whole string if shorter).
SubstrLast(s, n) == SubSeq(s, Max(1, Len(s) - n + 1), Len(s))

\* String.prototype.slice(0, -n): all but the last n characters.
SliceButLast(s, n) == SubSeq(s, 1, Len(s) - n)

StartsWith(s, p) == Len(s) >= Len(p) /\ SubSeq(s, 1, Len(p)) = p

-----------------------------------------------------------------------------
(* url.parse of Node, for the strings of this model: an http:// URL has a  *)
(* host up to the first "/", "?" or "#" and a pathname from there up to    *)
(* the first "?" or "#" ("/" when that is empty); anything else has no     *)
(* host, and its pathname is the string up to the first "?" or "#".        *)

\* Index of the first character of s that is in chars, Len(s) + 1 when none is.
FirstIn(s, chars) ==
    IF \E i \in 1..Len(s) : s[i] \in chars
    THEN CHOOSE i \in 1..Len(s) : s[i] \in chars /\ \A j \in 1..(i - 1) : s[j] \notin chars
    ELSE Len(s) + 1

HostEnd == {"/", "?", "#"}
PathEnd == {"?", "#"}

UrlParse(style) ==
    IF StartsWith(style, Scheme)
    THEN LET rest == SubstrFrom(style, Len(Scheme))
             k == FirstIn(rest, HostEnd)
             tail == SubSeq(rest, k, Len(rest))
             path == SubSeq(tail, 1, FirstIn(tail, PathEnd) - 1)
         IN  [host |-> SubSeq(rest, 1, k - 1),
              pathname |-> IF path = <<>> THEN <<"/">> ELSE path]
    ELSE [host |-> <<>>, pathname |-> SubSeq(style, 1, FirstIn(style, PathEnd) - 1)]

\* The values processStyleIdentifier returns: a URL object or an error string.
UrlObj(host, pathname, shortName) ==
    [t |-> "url", host |-> host, pathname |-> pathname, shortName |-> shortName, s |-> <<>>]

ErrorString(s) ==
    [t |-> "string", host |-> Undefined, pathname |-> Undefined, shortName |-> Undefined, s |-> s]

InvalidUrlMessage == <<"Invalid www.zotero.org URL for style: ">>

\* Mutant of processStyleIdentifier: the short name of a URL is cut one
\* character early, as substr(7).
processStyleIdentifierCutEarly(style) ==
    LET urlObj == UrlParse(style)
    IN  IF urlObj.host = <<>>
        THEN LET newStyleUrl == ZoteroStylesUrl \o style
                 parsed == UrlParse(newStyleUrl)
             IN  UrlObj(parsed.host, parsed.pathname, style)
        ELSE IF urlObj.host = ZoteroHost
        THEN IF Substr(urlObj.pathname, 0, PrefixLen) # StylesPath
             THEN ErrorString(InvalidUrlMessage \o style)
             ELSE UrlObj(urlObj.host, urlObj.pathname,
                         SubstrFrom(urlObj.pathname, PrefixLen - 1))
        ELSE UrlObj(urlObj.host, urlObj.pathname, SubstrFrom(urlObj.pathname, PrefixLen))

\* Mutant of processStyleIdentifier: the pathname of a www.zotero.org URL is
\* not compared with "/styles/".
processStyleIdentifierAnyPath(style) ==
    LET urlObj == UrlParse(style)
    IN  IF urlObj.host = <<>>
        THEN LET newStyleUrl == ZoteroStylesUrl \o style
                 parsed == UrlParse(newStyleUrl)
             IN  UrlObj(parsed.host, parsed.pathname, style)
        ELSE UrlObj(urlObj.host, urlObj.pathname, SubstrFrom(urlObj.pathname, PrefixLen))

\* Lines 106-138.
processStyleIdentifier(style) ==
    LET urlObj == UrlParse(style)
    IN  IF urlObj.host = <<>>
        THEN LET newStyleUrl == ZoteroStylesUrl \o style
                 parsed == UrlParse(newStyleUrl)
             IN  UrlObj(parsed.host, parsed.pathname, style)
        ELSE IF urlObj.host = ZoteroHost
        THEN IF Substr(urlObj.pathname, 0, PrefixLen) # StylesPath
             THEN ErrorString(InvalidUrlMessage \o style)
             ELSE UrlObj(urlObj.host, urlObj.pathname, SubstrFrom(urlObj.pathname, PrefixLen))
        ELSE UrlObj(urlObj.host, urlObj.pathname, SubstrFrom(urlObj.pathname, PrefixLen))

-----------------------------------------------------------------------------
(* JavaScript values held in the two hashes and passed to callbacks. *)

JsTrue == [t |-> "boolean", s |-> <<"true">>]
JsFalse == [t |-> "boolean", s |-> <<"false">>]
JsString(str) == [t |-> "string", s |-> str]
JsFunction == [t |-> "function", s |-> <<>>]
JsUndefined == [t |-> "undefined", s |-> <<>>]

\* A property every object literal {} inherits from Object.prototype.
valueOf == <<"v", "a", "l", "u", "e", "O", "f">>
ObjectPrototypeNames == {valueOf}

\* hash[name] on a hash created as {}: the own property, else the inherited one.
Get(hash, name) ==
    IF name \in DOMAIN hash THEN hash[name]
    ELSE IF name \in ObjectPrototypeNames THEN JsFunction
    ELSE JsUndefined

\* hash[name] = value
Put(hash, name, value) ==
    [n \in (DOMAIN hash) \cup {name} |-> IF n = name THEN value ELSE hash[n]]

\* typeof this.cslShortNames[x] != 'undefined' && this.cslShortNames[x] === true
IsIndependent(names, shortName) == shortName \in names

\* Callback values.
Null == <<"null">>
ReadError == <<"ENOENT">>
NotFound == <<"statusCode: 404", "message: Style not found">>
ResolveError == <<"Error resolving dependent style">>
NonZoteroError == <<"Non-Zotero styles are not supported at this time">>
LoadErrorPrefix == <<"Error loading style from file ">>

-----------------------------------------------------------------------------
(* Storage. *)

CslPath == <<".", "/", "c", "s", "l">>

IndependentFilename(shortName) == CslPath \o <<"/">> \o shortName \o DotCsl

\* What fs.readFile yields for an independent style file: its own text.
FileText(filename) == <<"text of ">> \o filename

\* The stylesheet a client posts with a request.
PostedXml == <<"posted style xml">>

\* A dependent stylesheet as the element tree jsdom builds from it.
Element(tag, rel, href) == [tag |-> tag, rel |-> rel, href |-> href]

DocumentWithParent(href) ==
    << Element("cslstyle", "", <<>>),
       Element("link", "self", <<"s">>),
       Element("link", "independent-parent", href),
       Element("link", "documentation", <<"d">>) >>

DocumentWithoutParent ==
    << Element("cslstyle", "", <<>>), Element("link", "self", <<"s">>) >>

ZoteroUrl(shortName) == ZoteroStylesUrl \o shortName
BadZoteroUrl(shortName) == Scheme \o ZoteroHost \o <<"/">> \o shortName
OtherUrl(shortName) == Scheme \o OtherHost \o StylesPath \o shortName

\* The parent links the dependent files of the model declare.
ParentLinks == {b, ZoteroUrl(b), BadZoteroUrl(b)}

Documents == {DocumentWithoutParent} \cup {DocumentWithParent(h) : h \in ParentLinks}

\* The short names that may have a .csl file in either directory.
StoredNames == {a, b}

\* A file in each directory that is not a style: init must skip it.
IndependentOther == b \o DotXml
DependentOther == a \o DotXml

\* The listings the independent directory may have.
IndependentListings ==
    {l \cup {IndependentOther} : l \in SUBSET {n \o DotCsl : n \in StoredNames}}

\* The styles a request may name: a as a short name, as a canonical URL, as a
\* www.zotero.org URL outside /styles/ and as a URL on another host, and a name
\* that no directory holds but every JavaScript object inherits.
StyleInputs == {a, valueOf, ZoteroUrl(a), BadZoteroUrl(a), OtherUrl(a)}

\* The short names a resolve step can be invoked on, given StyleInputs.
ResolvableNames == {a, valueOf}

\* The requests of the model: <<style, posted>>.  A posted stylesheet comes with
\* a short name or with a URL on another host.
Requests == (StyleInputs \X {FALSE}) \cup ({a, OtherUrl(a)} \X {TRUE})

\* The contents the dependent directory may have: any document for a file a
\* resolve step can read; the other files, which are only ever listed, hold a
\* document without a parent link.
DependentContents ==
    UNION {{f \in [stored -> Documents] :
               \A n \in stored \ ResolvableNames : f[n] = DocumentWithoutParent} :
           stored \in SUBSET StoredNames}

-----------------------------------------------------------------------------
(* readDependent: the href of the first link element whose rel is          *)
(* "independent-parent", or false.                                         *)

RECURSIVE ScanLinks(_, _)
ScanLinks(linkEls, i) ==
    IF i > Len(linkEls) THEN [found |-> FALSE, href |-> <<>>]
    ELSE IF linkEls[i].rel = "independent-parent"
         THEN [found |-> TRUE, href |-> linkEls[i].href]
         ELSE ScanLinks(linkEls, i + 1)

IsLink(el) == el.tag = "link"

readDependent(xml) ==
    LET linkEls == SelectSeq(xml, IsLink)
    IN  ScanLinks(linkEls, 1)

-----------------------------------------------------------------------------
(* cslFetcher.init *)

IsCslFile(filename) == SubstrLast(filename, SuffixLen) = DotCsl

ShortNamesOf(dir) == {SliceButLast(filename, SuffixLen) : filename \in {f \in dir : IsCslFile(f)}}

NoRequest ==
    [style |-> <<>>, styleUrlObj |-> ErrorString(<<>>), postedStyle |-> FALSE,
     styleXml |-> Undefined, cslXml |-> Undefined]

Init ==
    /\ initialized = FALSE
    /\ dirIndependent \in IndependentListings
    /\ dependentFiles \in DependentContents
    /\ dirDependent = {n \o DotCsl : n \in DOMAIN dependentFiles} \cup {DependentOther}
    /\ cslShortNames = {}
    /\ cslDependentShortNames = <<>>
    /\ zcreq = [r \in Slots |-> NoRequest]
    /\ pc = [r \in Slots |-> "idle"]
    /\ shortNameOf = [r \in Slots |-> Undefined]
    /\ callbacks = [r \in Slots |-> 0]
    /\ cbValue = [r \in Slots |-> Null]
    /\ reads = [r \in Slots |-> 0]
    /\ resolvedOk = {}
    /\ writes = <<>>

init ==
    /\ ~initialized
    /\ initialized' = TRUE
    /\ cslShortNames' = ShortNamesOf(dirIndependent)
    /\ cslDependentShortNames' = [n \in ShortNamesOf(dirDependent) |-> JsTrue]
    /\ writes' = [n \in ShortNamesOf(dirDependent) |-> <<>>]
    /\ UNCHANGED <<dirIndependent, dirDependent, dependentFiles, zcreq, pc, shortNameOf,
                   callbacks, cbValue, reads, resolvedOk>>

-----------------------------------------------------------------------------
(* The pipeline that drives the two steps of a request one after the other *)
(* (the caller in citeServer.js): the identifier is normalized, then       *)
(* resolveStyle and fetchStyle run in sequence, and the first callback     *)
(* called with an error ends the run.                                      *)

\* Mutant of AfterCallback: the pipeline goes on to the next step whatever the
\* callback was called with.
AfterCallbackContinue(err, next, failed) == next

\* What the pipeline does when a step calls callback(err).
AfterCallback(err, next, failed) == IF err = Null THEN next ELSE failed

Callback(r, err, next, failed) ==
    /\ callbacks' = [callbacks EXCEPT ![r] = @ + 1]
    /\ cbValue' = [cbValue EXCEPT ![r] = err]
    /\ pc' = [pc EXCEPT ![r] = AfterCallback(err, next, failed)]

\* A request arrives: normalize its style, then schedule resolveStyle.
Submit(r, style, posted) ==
    /\ initialized
    /\ pc[r] = "idle"
    /\ LET ident == processStyleIdentifier(style)
       IN  /\ zcreq' = [zcreq EXCEPT ![r] =
                          [style |-> style, styleUrlObj |-> ident, postedStyle |-> posted,
                           styleXml |-> IF posted THEN PostedXml ELSE Undefined,
                           cslXml |-> Undefined]]
           /\ pc' = [pc EXCEPT ![r] = IF ident.t = "string" THEN "rejected" ELSE "resolve"]
           /\ cbValue' = [cbValue EXCEPT ![r] = IF ident.t = "string" THEN ident.s ELSE Null]
    /\ UNCHANGED <<initialized, dirIndependent, dirDependent, dependentFiles, cslShortNames,
                   cslDependentShortNames, shortNameOf, callbacks, reads, resolvedOk, writes>>

-----------------------------------------------------------------------------
(* cslFetcher.resolveStyle *)

\* Mutant of ResolveStart: the memoized parent is not consulted and the file of
\* a resolved dependent style is read again.
ResolveStartNoMemo(names, dependent, urlObj) ==
    LET shortName == urlObj.shortName
        entry == Get(dependent, shortName)
    IN  IF IsIndependent(names, shortName)
        THEN [branch |-> "independent", do |-> "callback", err |-> Null,
              styleUrlObj |-> urlObj]
        ELSE IF entry.t # "undefined"
        THEN [branch |-> "dependent", do |-> "readFile", err |-> Null,
              styleUrlObj |-> urlObj]
        ELSE [branch |-> "unknown", do |-> "callback", err |-> NotFound,
              styleUrlObj |-> urlObj]

\* Mutant of ResolveStart: the dependent table is consulted before the
\* independent one.
ResolveStartDependentFirst(names, dependent, urlObj) ==
    LET shortName == urlObj.shortName
        entry == Get(dependent, shortName)
    IN  IF entry.t # "undefined"
        THEN IF entry.t = "string"
             THEN [branch |-> "dependent", do |-> "callback", err |-> Null,
                   styleUrlObj |-> processStyleIdentifier(entry.s)]
             ELSE [branch |-> "dependent", do |-> "readFile", err |-> Null,
                   styleUrlObj |-> urlObj]
        ELSE IF IsIndependent(names, shortName)
        THEN [branch |-> "independent", do |-> "callback", err |-> Null,
              styleUrlObj |-> urlObj]
        ELSE [branch |-> "unknown", do |-> "callback", err |-> NotFound,
              styleUrlObj |-> urlObj]

\* Lines 143-171 and 199-202: what the call does before it returns.  branch is
\* the arm of the if statement taken: "independent" (line 150), "dependent"
\* (line 159) or "unknown" (line 199).
ResolveStart(names, dependent, urlObj) ==
    LET shortName == urlObj.shortName
        entry == Get(dependent, shortName)
    IN  IF IsIndependent(names, shortName)
        THEN [branch |-> "independent", do |-> "callback", err |-> Null,
              styleUrlObj |-> urlObj]
        ELSE IF entry.t # "undefined"
        THEN IF entry.t = "string"
             THEN [branch |-> "dependent", do |-> "callback", err |-> Null,
                   styleUrlObj |-> processStyleIdentifier(entry.s)]
             ELSE [branch |-> "dependent", do |-> "readFile", err |-> Null,
                   styleUrlObj |-> urlObj]
        ELSE [branch |-> "unknown", do |-> "callback", err |-> NotFound,
              styleUrlObj |-> urlObj]

\* Mutant of ResolveRead: the result of readDependent is memoized before it is
\* compared with false.
ResolveReadMemoBeforeCheck(dependent, shortName, urlObj, err, data) ==
    IF err # Null
    THEN [err |-> err, styleUrlObj |-> urlObj, dependent |-> dependent, wrote |-> FALSE]
    ELSE LET parentStyle == readDependent(data)
         IN  IF ~parentStyle.found
             THEN [err |-> ResolveError, styleUrlObj |-> urlObj,
                   dependent |-> Put(dependent, shortName, JsFalse), wrote |-> TRUE]
             ELSE LET memo == Put(dependent, shortName, JsString(parentStyle.href))
                      ret == processStyleIdentifier(parentStyle.href)
                  IN  IF ret.t = "string"
                      THEN [err |-> ret.s, styleUrlObj |-> urlObj, dependent |-> memo,
                            wrote |-> TRUE]
                      ELSE [err |-> Null, styleUrlObj |-> ret, dependent |-> memo,
                            wrote |-> TRUE]

\* Mutant of ResolveRead: the parent that was read is used for this request but
\* is not memoized.
ResolveReadNoMemo(dependent, shortName, urlObj, err, data) ==
    IF err # Null
    THEN [err |-> err, styleUrlObj |-> urlObj, dependent |-> dependent, wrote |-> FALSE]
    ELSE LET parentStyle == readDependent(data)
         IN  IF ~parentStyle.found
             THEN [err |-> ResolveError, styleUrlObj |-> urlObj, dependent |-> dependent,
                   wrote |-> FALSE]
             ELSE LET ret == processStyleIdentifier(parentStyle.href)
                  IN  IF ret.t = "string"
                      THEN [err |-> ret.s, styleUrlObj |-> urlObj, dependent |-> dependent,
                            wrote |-> FALSE]
                      ELSE [err |-> Null, styleUrlObj |-> ret, dependent |-> dependent,
                            wrote |-> FALSE]

\* Mutant of ResolveRead: a failed read marks the entry, so that the file is
\* not read again.
ResolveReadMarkFailed(dependent, shortName, urlObj, err, data) ==
    IF err # Null
    THEN [err |-> err, styleUrlObj |-> urlObj,
          dependent |-> Put(dependent, shortName, JsFalse), wrote |-> TRUE]
    ELSE LET parentStyle == readDependent(data)
         IN  IF ~parentStyle.found
             THEN [err |-> ResolveError, styleUrlObj |-> urlObj, dependent |-> dependent,
                   wrote |-> FALSE]
             ELSE LET memo == Put(dependent, shortName, JsString(parentStyle.href))
                      ret == processStyleIdentifier(parentStyle.href)
                  IN  IF ret.t = "string"
                      THEN [err |-> ret.s, styleUrlObj |-> urlObj, dependent |-> memo,
                            wrote |-> TRUE]
                      ELSE [err |-> Null, styleUrlObj |-> ret, dependent |-> memo,
                            wrote |-> TRUE]

\* Mutant of ResolveRead: a parent that is itself a dependent style is marked
\* as its own parent in the same step.
ResolveReadMarkParent(dependent, shortName, urlObj, err, data) ==
    IF err # Null
    THEN [err |-> err, styleUrlObj |-> urlObj, dependent |-> dependent, wrote |-> FALSE]
    ELSE LET parentStyle == readDependent(data)
         IN  IF ~parentStyle.found
             THEN [err |-> ResolveError, styleUrlObj |-> urlObj, dependent |-> dependent,
                   wrote |-> FALSE]
             ELSE LET memo == Put(dependent, shortName, JsString(parentStyle.href))
                      ret == processStyleIdentifier(parentStyle.href)
                  IN  IF ret.t = "string"
                      THEN [err |-> ret.s, styleUrlObj |-> urlObj, dependent |-> memo,
                            wrote |-> TRUE]
                      ELSE [err |-> Null, styleUrlObj |-> ret,
                            dependent |-> IF ret.shortName \in DOMAIN memo
                                          THEN Put(memo, ret.shortName, JsString(ret.shortName))
                                          ELSE memo,
                            wrote |-> TRUE]

\* Lines 173-196: the function fs.readFile calls with (err, data).
ResolveRead(dependent, shortName, urlObj, err, data) ==
    IF err # Null
    THEN [err |-> err, styleUrlObj |-> urlObj, dependent |-> dependent, wrote |-> FALSE]
    ELSE LET parentStyle == readDependent(data)
         IN  IF ~parentStyle.found
             THEN [err |-> ResolveError, styleUrlObj |-> urlObj, dependent |-> dependent,
                   wrote |-> FALSE]
             ELSE LET memo == Put(dependent, shortName, JsString(parentStyle.href))
                      ret == processStyleIdentifier(parentStyle.href)
                  IN  IF ret.t = "string"
                      THEN [err |-> ret.s, styleUrlObj |-> urlObj, dependent |-> memo,
                            wrote |-> TRUE]
                      ELSE [err |-> Null, styleUrlObj |-> ret, dependent |-> memo,
                            wrote |-> TRUE]

resolveStyle(r) ==
    /\ pc[r] = "resolve"
    /\ LET urlObj == zcreq[r].styleUrlObj
           shortName == urlObj.shortName
           step == ResolveStart(cslShortNames, cslDependentShortNames, urlObj)
       IN  /\ shortNameOf' = [shortNameOf EXCEPT ![r] = shortName]
           /\ zcreq' = [zcreq EXCEPT ![r].styleUrlObj = step.styleUrlObj]
           /\ IF step.do = "callback"
              THEN /\ callbacks' = [callbacks EXCEPT ![r] = 1]
                   /\ cbValue' = [cbValue EXCEPT ![r] = step.err]
                   /\ pc' = [pc EXCEPT ![r] = AfterCallback(step.err, "fetch", "resolveFailed")]
                   /\ reads' = [reads EXCEPT ![r] = 0]
                   /\ resolvedOk' = IF step.branch = "dependent" /\ step.err = Null
                                    THEN resolvedOk \cup {shortName}
                                    ELSE resolvedOk
              ELSE /\ callbacks' = [callbacks EXCEPT ![r] = 0]
                   /\ pc' = [pc EXCEPT ![r] = "resolveRead"]
                   /\ reads' = [reads EXCEPT ![r] = 1]
                   /\ UNCHANGED <<cbValue, resolvedOk>>
    /\ UNCHANGED <<initialized, dirIndependent, dirDependent, dependentFiles, cslShortNames,
                   cslDependentShortNames, writes>>

\* fs.readFile of the dependent file completes and calls the function of lines 173-196.
resolveReadFile(r, err) ==
    /\ pc[r] = "resolveRead"
    /\ err = Null => shortNameOf[r] \in DOMAIN dependentFiles
    /\ LET shortName == shortNameOf[r]
           data == IF err = Null THEN dependentFiles[shortName] ELSE <<>>
           step == ResolveRead(cslDependentShortNames, shortName, zcreq[r].styleUrlObj,
                               err, data)
       IN  /\ cslDependentShortNames' = step.dependent
           /\ zcreq' = [zcreq EXCEPT ![r].styleUrlObj = step.styleUrlObj]
           /\ writes' = IF step.wrote
                        THEN Put(writes, shortName,
                                 Append(IF shortName \in DOMAIN writes THEN writes[shortName]
                                        ELSE <<>>,
                                        step.dependent[shortName]))
                        ELSE writes
           /\ Callback(r, step.err, "fetch", "resolveFailed")
           /\ resolvedOk' = IF step.err = Null THEN resolvedOk \cup {shortName}
                            ELSE resolvedOk
    /\ UNCHANGED <<initialized, dirIndependent, dirDependent, dependentFiles, cslShortNames,
                   shortNameOf, reads>>

-----------------------------------------------------------------------------
(* cslFetcher.fetchStyle *)

\* zcreq.styleUrlObj.host: undefined when styleUrlObj is a string.
HostOf(styleUrlObj) == styleUrlObj.host

\* Mutant of FetchStart: the host is examined before the posted stylesheet.
FetchStartHostFirst(names, dependent, req) ==
    IF HostOf(req.styleUrlObj) # ZoteroHost
    THEN [do |-> "callback", err |-> NonZoteroError, cslXml |-> req.cslXml]
    ELSE IF req.postedStyle
    THEN [do |-> "callback", err |-> Null, cslXml |-> req.styleXml]
    ELSE IF IsIndependent(names, req.styleUrlObj.shortName)
    THEN [do |-> "readFile", err |-> Null, cslXml |-> req.cslXml]
    ELSE [do |-> "nothing", err |-> Null, cslXml |-> req.cslXml]

\* Mutant of FetchStart: the independent table is consulted before the host.
FetchStartIndependentFirst(names, dependent, req) ==
    IF req.postedStyle
    THEN [do |-> "callback", err |-> Null, cslXml |-> req.styleXml]
    ELSE IF IsIndependent(names, req.styleUrlObj.shortName)
    THEN [do |-> "readFile", err |-> Null, cslXml |-> req.cslXml]
    ELSE IF HostOf(req.styleUrlObj) = ZoteroHost
    THEN [do |-> "nothing", err |-> Null, cslXml |-> req.cslXml]
    ELSE [do |-> "callback", err |-> NonZoteroError, cslXml |-> req.cslXml]

\* Lines 209-277: what the call does before it returns.
FetchStart(names, dependent, req) ==
    IF req.postedStyle
    THEN [do |-> "callback", err |-> Null, cslXml |-> req.styleXml]
    ELSE IF HostOf(req.styleUrlObj) = ZoteroHost
    THEN IF IsIndependent(names, req.styleUrlObj.shortName)
         THEN [do |-> "readFile", err |-> Null, cslXml |-> req.cslXml]
         ELSE [do |-> "nothing", err |-> Null, cslXml |-> req.cslXml]
    ELSE [do |-> "callback", err |-> NonZoteroError, cslXml |-> req.cslXml]

\* Lines 229-237: the function fs.readFile calls with (err, data).
FetchRead(req, filename, err, data) ==
    IF err # Null
    THEN [err |-> LoadErrorPrefix \o filename \o <<": ">> \o err, cslXml |-> req.cslXml]
    ELSE [err |-> Null, cslXml |-> data]

fetchStyle(r) ==
    /\ pc[r] = "fetch"
    /\ LET step == FetchStart(cslShortNames, cslDependentShortNames, zcreq[r])
       IN  /\ zcreq' = [zcreq EXCEPT ![r].cslXml = step.cslXml]
           /\ IF step.do = "callback"
              THEN /\ callbacks' = [callbacks EXCEPT ![r] = 1]
                   /\ cbValue' = [cbValue EXCEPT ![r] = step.err]
                   /\ pc' = [pc EXCEPT ![r] = AfterCallback(step.err, "done", "fetchFailed")]
                   /\ reads' = [reads EXCEPT ![r] = 0]
              ELSE /\ callbacks' = [callbacks EXCEPT ![r] = 0]
                   /\ pc' = [pc EXCEPT ![r] = IF step.do = "readFile" THEN "fetchRead"
                                              ELSE "fetchReturned"]
                   /\ reads' = [reads EXCEPT ![r] = IF step.do = "readFile" THEN 1 ELSE 0]
                   /\ UNCHANGED cbValue
    /\ UNCHANGED <<initialized, dirIndependent, dirDependent, dependentFiles, cslShortNames,
                   cslDependentShortNames, shortNameOf, resolvedOk, writes>>

\* fs.readFile of the independent file completes and calls the function of lines 229-237.
fetchReadFile(r, err) ==
    /\ pc[r] = "fetchRead"
    /\ LET shortName == zcreq[r].styleUrlObj.shortName
           filename == IndependentFilename(shortName)
       IN  /\ err = Null => (shortName \o DotCsl) \in dirIndependent
           /\ LET step == FetchRead(zcreq[r], filename, err, FileText(filename))
              IN  /\ zcreq' = [zcreq EXCEPT ![r].cslXml = step.cslXml]
                  /\ Callback(r, step.err, "done", "fetchFailed")
    /\ UNCHANGED <<initialized, dirIndependent, dirDependent, dependentFiles, cslShortNames,
                   cslDependentShortNames, shortNameOf, reads, resolvedOk, writes>>

-----------------------------------------------------------------------------

ReadOutcomes == {Null, ReadError}

Next ==
    \/ init
    \/ \E r \in Slots, req \in Requests : Submit(r, req[1], req[2])
    \/ \E r \in Slots : resolveStyle(r)
    \/ \E r \in Slots, err \in ReadOutcomes : resolveReadFile(r, err)
    \/ \E r \in Slots : fetchStyle(r)
    \/ \E r \in Slots, err \in ReadOutcomes : fetchReadFile(r, err)

Spec == Init /\ [][Next]_vars

-----------------------------------------------------------------------------
(* Vocabulary of the properties. *)

\* The step of slot r has returned and no read it started is pending.
ResolveEnded(r) == pc[r] \in {"fetch", "resolveFailed"}
FetchEnded(r) == pc[r] \in {"done", "fetchFailed", "fetchReturned"}

\* The pipeline run of slot r is over: nothing more will happen to it.
RunEnded(r) == pc[r] \in {"resolveFailed", "done", "fetchFailed", "fetchReturned"}

\* The value a step signalled comes from a failed storage read.
IsReadFailure(err) == err = ReadError \/ StartsWith(err, LoadErrorPrefix)

\* The identifier the request of slot r entered the pipeline with.
OriginalIdentifier(r) == processStyleIdentifier(zcreq[r].style)

DependentKeys == DOMAIN cslDependentShortNames

-----------------------------------------------------------------------------
\* C1: every invocation of resolveStyle or fetchStyle calls its callback exactly
\* once, provided every read it starts completes: a step that has returned with
\* no read pending has called back once, and no step calls back twice.
C1_CallbackExactlyOnce ==
    \A r \in Slots :
        /\ callbacks[r] <= 1
        /\ (ResolveEnded(r) \/ FetchEnded(r)) => callbacks[r] = 1

-----------------------------------------------------------------------------
-----------------------------------------------------------------------------
\* C3 as stated: every entry of cslDependentShortNames is true (Unresolved)
\* after init, is assigned a parent string at most once in a behaviour, and
\* from then on holds that value.
C3_WrittenOnce ==
    initialized =>
        \A s \in DependentKeys :
            /\ Len(writes[s]) <= 1
            /\ writes[s] = <<>> => cslDependentShortNames[s] = JsTrue
            /\ writes[s] # <<>> => cslDependentShortNames[s] = writes[s][1]

\* C3 as amended: every entry is true (Unresolved) when init returns; its value
\* changes at most once, from true to a parent string; an entry that holds a
\* string keeps it in every later step (a later assignment stores the same
\* string), and no key is added or removed.
C3_ResolvedOnceNeverReverts ==
    [][/\ (~initialized /\ initialized')
            => \A s \in DOMAIN cslDependentShortNames' : cslDependentShortNames'[s] = JsTrue
       /\ initialized
            => /\ DOMAIN cslDependentShortNames' = DependentKeys
               /\ \A s \in DependentKeys :
                     /\ cslDependentShortNames[s] # JsTrue
                           => cslDependentShortNames'[s] = cslDependentShortNames[s]
                     /\ cslDependentShortNames'[s] # cslDependentShortNames[s]
                           => cslDependentShortNames'[s].t = "string"]_vars

\* C3 witness: two requests have both assigned the entry of the same short name.
C3_Witness ==
    \E s \in DOMAIN writes :
        /\ Len(writes[s]) = 2
        /\ cslDependentShortNames[s].t = "string"

-----------------------------------------------------------------------------
\* C4: a pipeline run on a request that carries a posted stylesheet ends in
\* success with the posted stylesheet as the resolved text, whatever identifier
\* is on the request (known to the registry or not).
C4_PostedStyleEndsInSuccess ==
    \A r \in Slots :
        (zcreq[r].postedStyle /\ RunEnded(r))
            => (pc[r] = "done" /\ zcreq[r].cslXml = PostedXml)

-----------------------------------------------------------------------------
\* C5: a fetch step invoked on a request that carries a posted stylesheet calls
\* back once with success, with the resolved text equal to the posted
\* stylesheet, and starts no storage read, whatever identifier is on the
\* request and whatever the registry holds.
C5_FetchPostedStyle ==
    \A r \in Slots :
        (zcreq[r].postedStyle /\ pc[r] \in {"fetchRead", "done", "fetchFailed", "fetchReturned"})
            => /\ pc[r] = "done"
               /\ callbacks[r] = 1
               /\ cbValue[r] = Null
               /\ reads[r] = 0
               /\ zcreq[r].cslXml = zcreq[r].styleXml
               /\ zcreq[r].cslXml = PostedXml

\* C5 witness: a posted stylesheet was returned for an identifier that the
\* fetch step could not have served from storage.
C5_Witness ==
    \E r \in Slots :
        /\ pc[r] = "done"
        /\ zcreq[r].postedStyle
        /\ zcreq[r].cslXml = PostedXml
        /\ ~IsIndependent(cslShortNames, zcreq[r].styleUrlObj.shortName)

-----------------------------------------------------------------------------
\* C6: a fetch step invoked with no posted stylesheet on an identifier whose
\* short name is a key of cslDependentShortNames signals a failure and sets no
\* resolved text; it never returns without signalling.
C6_FetchDependentSignalsFailure ==
    \A r \in Slots :
        (/\ FetchEnded(r)
         /\ ~zcreq[r].postedStyle
         /\ zcreq[r].styleUrlObj.shortName \in DependentKeys)
            => /\ pc[r] = "fetchFailed"
               /\ callbacks[r] = 1
               /\ zcreq[r].cslXml = Undefined

-----------------------------------------------------------------------------
\* The parent a dependent file declares, when it names an independent style by
\* short name or by canonical URL: the short name of that style, else Undefined.
DeclaredIndependentParent(d) ==
    IF d \notin DOMAIN dependentFiles THEN Undefined
    ELSE LET link == readDependent(dependentFiles[d])
             ident == processStyleIdentifier(link.href)
         IN  IF /\ link.found
                /\ ident.t = "url"
                /\ ident.host = ZoteroHost
                /\ ident.shortName \in cslShortNames
             THEN ident.shortName
             ELSE Undefined

\* C7: when dependent short name d has a file whose independent-parent link
\* names p and p is an independent style, a pipeline run on the identifier d
\* with no posted stylesheet, whose storage reads succeed, ends in success with
\* the identifier's short name p and the text of p's independent file.
C7_DependentEndToEnd ==
    \A r \in Slots :
        LET d == zcreq[r].style
            p == DeclaredIndependentParent(d)
        IN  (/\ RunEnded(r)
             /\ ~zcreq[r].postedStyle
             /\ d \in DependentKeys
             /\ p # Undefined
             /\ ~IsReadFailure(cbValue[r]))
            => /\ pc[r] = "done"
               /\ zcreq[r].styleUrlObj.shortName = p
               /\ zcreq[r].cslXml = FileText(IndependentFilename(p))

-----------------------------------------------------------------------------
\* One whole resolve step whose storage read (if any) succeeds with data.
WholeResolve(names, dependent, urlObj, data) ==
    LET step == ResolveStart(names, dependent, urlObj)
    IN  IF step.do = "callback"
        THEN [err |-> step.err, styleUrlObj |-> step.styleUrlObj, dependent |-> dependent]
        ELSE LET cont == ResolveRead(dependent, urlObj.shortName, urlObj, Null, data)
             IN  [err |-> cont.err, styleUrlObj |-> cont.styleUrlObj,
                  dependent |-> cont.dependent]

\* The outcome of the resolve steps of r1 then r2 on s, run one after the
\* other from the registry in which s is unresolved, agrees with what the two
\* slots and the registry hold now.
SameAsSequential(r1, r2, s) ==
    LET before == Put(cslDependentShortNames, s, JsTrue)
        first == WholeResolve(cslShortNames, before, OriginalIdentifier(r1), dependentFiles[s])
        second == WholeResolve(cslShortNames, first.dependent, OriginalIdentifier(r2),
                               dependentFiles[s])
    IN  /\ cbValue[r1] = first.err
        /\ zcreq[r1].styleUrlObj = first.styleUrlObj
        /\ cbValue[r2] = second.err
        /\ zcreq[r2].styleUrlObj = second.styleUrlObj
        /\ cslDependentShortNames[s] = second.dependent[s]

\* C8: when two resolve steps on the same unresolved dependent short name s
\* have both read its file (their reads succeeding), the value of
\* cslDependentShortNames[s] and the identifier and result of each request are
\* those of a sequential execution of the two steps, in one order or the other,
\* and every assignment to cslDependentShortNames[s] stored the same value.
C8_RaceIsBenign ==
    \A r1, r2 \in Slots :
        LET s == shortNameOf[r1]
        IN  (/\ r1 # r2
             /\ ResolveEnded(r1) /\ ResolveEnded(r2)
             /\ reads[r1] = 1 /\ reads[r2] = 1
             /\ shortNameOf[r2] = s
             /\ s \in DOMAIN dependentFiles
             /\ cbValue[r1] # ReadError /\ cbValue[r2] # ReadError)
            => /\ SameAsSequential(r1, r2, s) \/ SameAsSequential(r2, r1, s)
               /\ \A i \in 1..Len(writes[s]) : writes[s][i] = writes[s][1]

-----------------------------------------------------------------------------
\* C9: from the end of init on, whatever the two directories hold, no short
\* name is both in cslShortNames and a key of cslDependentShortNames.
C9_RegistriesDisjoint ==
    initialized => cslShortNames \cap DependentKeys = {}

-----------------------------------------------------------------------------
\* C10: a resolve step on a request whose short name is in cslShortNames calls
\* back once with success, starts no storage read, and leaves the request's
\* identifier, cslShortNames and cslDependentShortNames unchanged.
C10_ResolveIndependent ==
    [][\A r \in Slots :
          (/\ pc[r] = "resolve"
           /\ pc'[r] # "resolve"
           /\ zcreq[r].styleUrlObj.shortName \in cslShortNames)
          => /\ pc'[r] = "fetch"
             /\ callbacks'[r] = 1
             /\ cbValue'[r] = Null
             /\ reads'[r] = 0
             /\ zcreq'[r] = zcreq[r]
             /\ cslShortNames' = cslShortNames
             /\ cslDependentShortNames' = cslDependentShortNames]_vars

\* C10 witness: a resolve step has succeeded on an independent short name that
\* also has an unresolved dependent entry, without reading and without
\* touching the entry.
C10_Witness ==
    \E r \in Slots :
        /\ pc[r] = "fetch"
        /\ shortNameOf[r] \in cslShortNames
        /\ shortNameOf[r] \in DependentKeys
        /\ cslDependentShortNames[shortNameOf[r]] = JsTrue
        /\ reads[r] = 0 /\ callbacks[r] = 1
        /\ zcreq[r].styleUrlObj = OriginalIdentifier(r)

-----------------------------------------------------------------------------
\* The parent link the dependent file of short name s declares.
DeclaredParent(s) ==
    IF s \in DOMAIN dependentFiles THEN readDependent(dependentFiles[s])
    ELSE [found |-> FALSE, href |-> <<>>]

\* The resolve step of slot r starts (the call of resolveStyle) or completes
\* (the function given to fs.readFile is called) in this transition.
ResolveStarts(r) == pc[r] = "resolve" /\ pc'[r] # "resolve"
ResolveReadCompletes(r) == pc[r] = "resolveRead" /\ pc'[r] # "resolveRead"

\* resolveStyle treats short name s as an unresolved dependent style: it is not
\* served by the independent arm (line 150) and its entry is true.
IsUnresolvedDependent(s) ==
    /\ s \notin cslShortNames
    /\ s \in DependentKeys
    /\ cslDependentShortNames[s] = JsTrue

-----------------------------------------------------------------------------
\* C12: a resolve step on a request whose short name is neither in
\* cslShortNames nor a key of cslDependentShortNames calls back once with the
\* 404 "Style not found" value, starts no storage read, and leaves the
\* request's identifier and both tables unchanged.
C12_UnknownIsNotFound ==
    [][\A r \in Slots :
          LET s == zcreq[r].styleUrlObj.shortName
          IN  (ResolveStarts(r) /\ s \notin cslShortNames /\ s \notin DependentKeys)
              => /\ pc'[r] = "resolveFailed"
                 /\ callbacks'[r] = 1
                 /\ cbValue'[r] = NotFound
                 /\ reads'[r] = 0
                 /\ zcreq'[r] = zcreq[r]
                 /\ cslShortNames' = cslShortNames
                 /\ cslDependentShortNames' = cslDependentShortNames]_vars

-----------------------------------------------------------------------------
(* processStyleIdentifier on its own: one request is handed a style string *)
(* drawn from a bounded set and the function is applied to it.             *)

\* Longest short name of the inputs.
MaxNameLen == 3

\* The characters of the short names: a letter, the first letter of
\* "styles", and the hyphen of the repository's file names.
NameChars == {"a", "s", "-"}

\* Short names as init derives them from file names (line 72).
ValidShortNames == UNION {[1..n -> NameChars] : n \in 1..MaxNameLen}

\* What follows the host in a www.zotero.org URL that is not under /styles/.
OutsidePrefixes ==
    { <<"/">>, <<"/", "s", "t", "y", "l", "e", "/">>, <<"/", "s", "t", "y", "l", "e", "s">>,
      <<"/", "s", "t", "y", "l", "e", "s", "?">>, <<"?">>, <<"#">> }

CanonicalUrlsOutsideStyles ==
    {Scheme \o ZoteroHost}
        \cup {Scheme \o ZoteroHost \o q \o s : q \in OutsidePrefixes, s \in ValidShortNames}

NormalizeInputs ==
    ValidShortNames
        \cup {ZoteroUrl(s) : s \in ValidShortNames}
        \cup {OtherUrl(s) : s \in ValidShortNames}
        \cup CanonicalUrlsOutsideStyles

\* The slot whose request carries the style string.
NormalizeSlot == 1

NormalizeInit ==
    /\ initialized = FALSE
    /\ dirIndependent = {IndependentOther}
    /\ dependentFiles = <<>>
    /\ dirDependent = {DependentOther}
    /\ cslShortNames = {}
    /\ cslDependentShortNames = <<>>
    /\ \E style \in NormalizeInputs :
          zcreq = [r \in Slots |-> IF r = NormalizeSlot
                                   THEN [NoRequest EXCEPT !.style = style]
                                   ELSE NoRequest]
    /\ pc = [r \in Slots |-> "idle"]
    /\ shortNameOf = [r \in Slots |-> Undefined]
    /\ callbacks = [r \in Slots |-> 0]
    /\ cbValue = [r \in Slots |-> Null]
    /\ reads = [r \in Slots |-> 0]
    /\ resolvedOk = {}
    /\ writes = <<>>

\* zcreq.styleUrlObj = cslFetcher.processStyleIdentifier(style)
Normalize ==
    /\ pc[NormalizeSlot] = "idle"
    /\ zcreq' = [zcreq EXCEPT ![NormalizeSlot].styleUrlObj =
                                processStyleIdentifier(zcreq[NormalizeSlot].style)]
    /\ pc' = [pc EXCEPT ![NormalizeSlot] = "normalized"]
    /\ UNCHANGED <<initialized, dirIndependent, dirDependent, dependentFiles, cslShortNames,
                   cslDependentShortNames, shortNameOf, callbacks, cbValue, reads,
                   resolvedOk, writes>>

NormalizeNext == Normalize

NormalizeSpec == NormalizeInit /\ [][NormalizeNext]_vars

\* The style string that was normalized and the value that came back.
NormalizedStyle == zcreq[NormalizeSlot].style
NormalizeResult == zcreq[NormalizeSlot].styleUrlObj
Normalized == pc[NormalizeSlot] = "normalized"

-----------------------------------------------------------------------------
\* C13: for every valid short name s, processStyleIdentifier(s) is a URL
\* object whose shortName is s, and processStyleIdentifier of the canonical URL
\* http://www.zotero.org/styles/s is a URL object whose shortName is s and
\* whose host is www.zotero.org.
C13_RoundTrip ==
    Normalized =>
        \A s \in ValidShortNames :
            /\ NormalizedStyle = s
                  => (NormalizeResult.t = "url" /\ NormalizeResult.shortName = s)
            /\ NormalizedStyle = ZoteroUrl(s)
                  => /\ NormalizeResult.t = "url"
                     /\ NormalizeResult.shortName = s
                     /\ NormalizeResult.host = ZoteroHost

\* C13 witness: the canonical URL of a short name of the greatest length has
\* been normalized to that short name.
C13_Witness ==
    /\ Normalized
    /\ \E s \in ValidShortNames :
          /\ Len(s) = MaxNameLen
          /\ NormalizedStyle = ZoteroUrl(s)
          /\ NormalizeResult.shortName = s

-----------------------------------------------------------------------------
\* C14: processStyleIdentifier of a URL whose host is www.zotero.org and whose
\* path does not begin with /styles/ returns the "Invalid www.zotero.org URL"
\* error string and no URL object.
C14_OutsideStylesIsInvalid ==
    (Normalized /\ NormalizedStyle \in CanonicalUrlsOutsideStyles)
        => /\ NormalizeResult.t = "string"
           /\ NormalizeResult.s = InvalidUrlMessage \o NormalizedStyle
           /\ NormalizeResult.shortName = Undefined

\* C14 witness: a www.zotero.org URL under /style/ (not /styles/) was refused.
C14_Witness ==
    /\ Normalized
    /\ NormalizedStyle \in CanonicalUrlsOutsideStyles
    /\ Len(NormalizedStyle) > Len(ZoteroStylesUrl)
    /\ NormalizeResult.t = "string"

-----------------------------------------------------------------------------
\* The resolve step of slot r calls its callback in this transition, with a
\* failure value.
ResolveSignalsFailure(r) ==
    /\ ResolveStarts(r) \/ ResolveReadCompletes(r)
    /\ callbacks'[r] = callbacks[r] + 1 \/ (ResolveStarts(r) /\ callbacks'[r] = 1)
    /\ cbValue'[r] # Null

\* C15: when the resolve step of a pipeline run signals a failure, the run
\* ends there: fetchStyle is never invoked for that request, zcreq.cslXml stays
\* unset, and the failure value the step signalled is what the caller holds,
\* unchanged from then on.
C15_ResolveFailureEndsRun ==
    [][\A r \in Slots :
          /\ ResolveSignalsFailure(r)
                => /\ pc'[r] = "resolveFailed"
                   /\ zcreq'[r].cslXml = Undefined
          /\ pc[r] = "resolveFailed"
                => /\ pc'[r] = "resolveFailed"
                   /\ cbValue'[r] = cbValue[r]
                   /\ cbValue[r] # Null
                   /\ zcreq'[r] = zcreq[r]
                   /\ zcreq[r].cslXml = Undefined]_vars

\* C15 witness: a run was ended by its resolve step, which read the dependent
\* file and found no parent link in it; no stylesheet text was set.
C15_Witness ==
    \E r \in Slots :
        /\ pc[r] = "resolveFailed"
        /\ reads[r] = 1 /\ callbacks[r] = 1
        /\ cbValue[r] = ResolveError
        /\ zcreq[r].cslXml = Undefined

-----------------------------------------------------------------------------
\* The fetch step of slot r starts (the call of fetchStyle) in this transition.
FetchStarts(r) == pc[r] = "fetch" /\ pc'[r] # "fetch"

\* C16: a fetch step invoked with no posted stylesheet on an identifier whose
\* host is not www.zotero.org calls back once with "Non-Zotero styles are not
\* supported at this time", starts no storage read and sets no stylesheet text.
C16_FetchOtherHostUnsupported ==
    [][\A r \in Slots :
          (/\ FetchStarts(r)
           /\ ~zcreq[r].postedStyle
           /\ HostOf(zcreq[r].styleUrlObj) # ZoteroHost)
          => /\ pc'[r] = "fetchFailed"
             /\ callbacks'[r] = 1
             /\ cbValue'[r] = NonZoteroError
             /\ reads'[r] = 0
             /\ zcreq'[r] = zcreq[r]
             /\ zcreq'[r].cslXml = Undefined]_vars

\* C16 witness: the fetch step refused a URL on another host although the
\* short name cut from it has an independent file.
C16_Witness ==
    \E r \in Slots :
        /\ pc[r] = "fetchFailed"
        /\ cbValue[r] = NonZoteroError
        /\ reads[r] = 0 /\ callbacks[r] = 1
        /\ zcreq[r].styleUrlObj.host = OtherHost
        /\ zcreq[r].styleUrlObj.shortName \in cslShortNames
        /\ zcreq[r].cslXml = Undefined

-----------------------------------------------------------------------------
\* C17: when a resolve step on an unresolved dependent short name s reads a
\* parent string that processStyleIdentifier refuses, the step calls back with
\* that error string, cslDependentShortNames[s] stays true (the parent is
\* recorded only on success), and the request's identifier is unchanged.
C17_InvalidParentNotRecorded ==
    [][\A r \in Slots :
          LET s == shortNameOf[r]
              p == DeclaredParent(s)
              ret == processStyleIdentifier(p.href)
          IN  (/\ ResolveReadCompletes(r)
               /\ cbValue'[r] # ReadError
               /\ cslDependentShortNames[s] = JsTrue
               /\ p.found
               /\ ret.t = "string")
              => /\ pc'[r] = "resolveFailed"
                 /\ cbValue'[r] = ret.s
                 /\ zcreq'[r] = zcreq[r]
                 /\ cslDependentShortNames'[s] = JsTrue]_vars

-----------------------------------------------------------------------------
\* C18: when a resolve step on an unresolved dependent short name s fails
\* because the read fails or because the file declares no independent-parent
\* link, the step calls back with the read error or with "Error resolving
\* dependent style", cslDependentShortNames and the request's identifier are
\* unchanged, and a resolve step invoked on s while its entry is true reads the
\* file again.
C18_FailedReadLeavesUnresolved ==
    [][\A r \in Slots :
          LET s == shortNameOf[r]
              p == DeclaredParent(s)
          IN  /\ (ResolveReadCompletes(r) /\ (cbValue'[r] = ReadError \/ ~p.found))
                    => /\ pc'[r] = "resolveFailed"
                       /\ cbValue'[r] # ReadError => cbValue'[r] = ResolveError
                       /\ zcreq'[r] = zcreq[r]
                       /\ cslDependentShortNames' = cslDependentShortNames
              /\ \A r2 \in Slots \ {r} :
                    (/\ pc[r] = "resolveFailed"
                     /\ cbValue[r] \in {ReadError, ResolveError}
                     /\ ResolveStarts(r2)
                     /\ zcreq[r2].styleUrlObj.shortName = s
                     /\ IsUnresolvedDependent(s))
                    => /\ pc'[r2] = "resolveRead"
                       /\ reads'[r2] = 1]_vars

\* C18 witness: after the resolve step of one request failed on short name s
\* without a parent being recorded, the step of another request on s has read
\* the file too and failed the same way; the entry is still true.
C18_Witness ==
    \E r1, r2 \in Slots :
        /\ r1 # r2
        /\ pc[r1] = "resolveFailed" /\ pc[r2] = "resolveFailed"
        /\ cbValue[r1] = ReadError /\ cbValue[r2] = ResolveError
        /\ reads[r1] = 1 /\ reads[r2] = 1
        /\ shortNameOf[r1] = shortNameOf[r2]
        /\ shortNameOf[r1] \in DependentKeys
        /\ cslDependentShortNames[shortNameOf[r1]] = JsTrue
        /\ zcreq[r1].styleUrlObj = OriginalIdentifier(r1)
        /\ zcreq[r2].styleUrlObj = OriginalIdentifier(r2)

-----------------------------------------------------------------------------
-----------------------------------------------------------------------------
\* C20: whenever a resolve step has signalled success, by the memoized parent
\* as well as by reading the file, the request's identifier is a URL object
\* (host, pathname, shortName) and never an error string of
\* processStyleIdentifier.
C20_SuccessHasIdentifier ==
    \A r \in Slots :
        pc[r] \in {"fetch", "fetchRead", "fetchFailed", "fetchReturned", "done"}
            => zcreq[r].styleUrlObj.t = "url"

====
